---- MODULE Spec2Model ----
(***************************************************************************)
(* Request lifecycle engine (RequestManager), bounded-concurrency gate     *)
(* (RequestPool) and Http2Session of the http2 client library.             *)
(*                                                                         *)
(* Requests are numbered in the order in which they are issued.  The       *)
(* JavaScript job queue is modelled explicitly: `microtasks' is the FIFO   *)
(* queue of promise reactions (the continuation of an `await', a           *)
(* `.finally' callback); the transport delivers stream events at any       *)
(* moment after the stream was opened, in any order and also after the     *)
(* stream was closed; the timeout callback is a one-shot listener.         *)
(*                                                                         *)
(* Spec          : one session, MaxReq concurrent verb calls.              *)
(* SpecLifecycle : one verb call, over all timeout settings and errors.    *)
(* SpecLifecycleLive : the same, on a transport that delivers a terminal   *)
(*                 event on every opened stream.                           *)
(* SpecGate      : one RequestPool running MaxGateReq lifecycles.          *)
(* SpecGateLive  : the gate with a job queue that is always run and       *)
(*                 streams that always deliver a terminal event.           *)
(* SpecSession   : construction of a session, close() calls and the        *)
(*                 terminal events of its connection.                      *)
(* SpecMerge     : one POST over all header, body and timeout options.     *)
(* SpecResponse  : one GET, its response metadata, data fragments and the  *)
(*                 reads of the Response.                                  *)
(*                                                                         *)
(* SpecShared    : two GETs of one session, their response metadata, data  *)
(*                 fragments and terminal events interleaved.              *)
(*                                                                         *)
(* Text that the program computes on (bodies, pseudo-status values) is a   *)
(* sequence of UTF-16 code units; bytes are a sequence of 0..255.          *)
(***************************************************************************)
EXTENDS Integers, Sequences, FiniteSets, TLC

\* ------------------------------------------------------------------ bounds
MaxReq == 2         \* verb calls made on the session in one behaviour
MaxGateReq == 3     \* lifecycles submitted to the gate in one behaviour
MaxLimit == 2       \* largest concurrency limit a gate or session is given
MaxEvents == 4      \* terminal stream events the transport delivers in one behaviour
MaxSessionEvents == 2   \* terminal events the connection delivers to the session
MaxCloseCalls == 2      \* close() calls made on the session
MaxChunks == 2          \* data fragments the transport delivers on one stream

\* ------------------------------------------------------- program constants
DefaultTimeout == 30000       \* session.ts: timeout: 30000
DefaultConcurrency == 100     \* request-pool.ts: constructor(concurrency = 100)
VORR_USER_AGENT == "vorr/1.0.0"   \* `vorr/${VORR_VERSION}`

Ids == 1..(IF MaxReq > MaxGateReq THEN MaxReq ELSE MaxGateReq)

Methods == {"GET", "POST"}
Paths == {"/delay/5"}
\* new URL(origin): the parsed origin
URL(protocol, hostname) == [protocol |-> protocol, hostname |-> hostname, port |-> ""]
\* URL.prototype.toString
toString(url) == url.protocol \o "//" \o url.hostname \o "/"
Origins == {URL("https:", "httpbin.org")}
SessionOrigins == Origins \cup {URL("http:", "httpbin.org")}
ProtocolOptions == {<<>>, <<"h2">>, <<"h2c">>}
\* the headers option of a session: absent, or <<header object>>
SessionHeaderOptions ==
    {<<>>,
     <<(<<(<<"x-custom", "session">>)>>)>>,
     <<(<<(<<"X-Custom", "session">>), (<<"x-custom", "session-2">>)>>)>>}
\* the headers member of request options
RequestHeaders ==
    {<<>>,
     <<(<<"X-Custom", "request">>)>>,
     <<(<<"x-custom", "request">>)>>,
     <<(<<"Content-Type", "application/json">>)>>,
     <<(<<"content-type", "application/xml">>)>>}
\* the :status member of response metadata: absent, '204', 'abc', ['404'],
\* [] and the number 200
StatusValues ==
    {[type |-> "undefined"],
     [type |-> "string", chars |-> <<50, 48, 52>>],
     [type |-> "string", chars |-> <<97, 98, 99>>],
     [type |-> "array", items |-> <<[type |-> "string", chars |-> <<52, 48, 52>>]>>],
     [type |-> "array", items |-> <<>>],
     [type |-> "number", value |-> 200]}
\* data fragments: '1', '{}' and 'x'
Chunks == {<<49>>, <<123, 125>>, <<120>>}
\* the timeout member of request options, 0 included
MergeTimeouts == {<<>>, <<0>>, <<5000>>}
\* an optional number is <<>> (absent) or <<n>>
SessionTimeouts == {<<>>, <<0>>, <<100>>}
RequestTimeouts == {<<>>, <<5000>>}
ConcurrencyOptions == {<<>>} \cup {<<n>> : n \in 1..MaxLimit}
\* an error object of the transport
TransportError(code) == [name |-> "Error", code |-> code]
Errors == {TransportError("ECONNRESET"), TransportError("ERR_HTTP2_STREAM_ERROR")}

VARIABLES
    \* Http2Session
    origin,           \* this.origin.toString()
    defaultOptions,   \* this.defaultOptions
    isConnected,      \* this.isConnected
    requestCount,     \* this.requestCount
    connClosed,       \* the connection handle this.session is closed
    protocol,         \* this.protocol
    constructed,      \* "no" | "yes" | "threw": the outcome of the constructor
    connOpened,       \* http2.connect was called
    observers,        \* events of the connection the session listens to
    ctorArgs,         \* the arguments the constructor was given
    activeSessions,             \* http_client_active_sessions up/down counter
    sessionDurationRecords,     \* http_client_session_duration records
    requestsPerSessionRecords,  \* http_client_requests_per_session records
    closeCalls,       \* close() calls made so far
    sessionEvents,    \* terminal events the connection has delivered
    \* RequestPool
    concurrency,      \* this.concurrency
    active,           \* this.active (Counter)
    queue,            \* this.queue: the waiting continuations, by request id
    \* per request
    nextId,           \* id of the next request to be issued
    via,              \* "none" | "session" | "pool": the entry point used
    call,             \* the arguments the caller gave: method, path, options
    mngr,             \* the RequestManager built for the request
    stream,           \* the stream handle of the lifecycle
    ctx,              \* RequestContext
    result,           \* the promise returned by RequestManager.doRequest
    callResult,       \* the promise returned to the caller (verb / pool.doRequest)
    \* telemetry
    activeRequests,   \* http_client_active_requests up/down counter
    totalRequests,    \* http_client_total_requests counter
    durationRecords,  \* http_client_request_duration records, per lifecycle
    \* job queue
    microtasks,
    \* history of the run
    firstEvent,       \* first terminal event the transport delivered per stream
    nEvents,          \* number of terminal events delivered per stream
    timeoutFired,     \* the one-shot timeout callback has run
    settleCount,      \* times the lifecycle's promise changed state
    enqOrder,         \* requests in the order they entered the gate's queue
    startOrder,       \* requests in the order the gate started their lifecycle
    releaseCount,     \* RequestPool.release calls made on behalf of a request
    received,         \* response and data events delivered per stream
    \* the caller's reads of a Response
    textResult,       \* the promise of response.text()
    jsonResult        \* the promise of response.json()

ctorVars == <<protocol, constructed, connOpened, observers, ctorArgs>>
sessionMeterVars ==
    <<activeSessions, sessionDurationRecords, requestsPerSessionRecords>>
sessionVars == <<origin, defaultOptions, isConnected, requestCount, connClosed,
                 ctorVars, sessionMeterVars, closeCalls, sessionEvents>>
poolVars == <<concurrency, active, queue>>
requestVars == <<nextId, via, call, mngr, stream, ctx, result, callResult>>
meterVars == <<activeRequests, totalRequests, durationRecords>>
historyVars == <<firstEvent, nEvents, timeoutFired, settleCount, enqOrder,
                 startOrder, releaseCount>>
responseVars == <<received, textResult, jsonResult>>
vars == <<sessionVars, poolVars, requestVars, meterVars, microtasks, historyVars,
          responseVars>>

\* ---------------------------------------------------------------- promises
Pending == [state |-> "pending"]
Fulfilled(v) == [state |-> "fulfilled", value |-> v]
Rejected(e) == [state |-> "rejected", reason |-> e]
IsSettled(p) == p.state # "pending"

\* resolve()/reject() of a promise that was already settled overwrite it
SettleOverwrite(p, outcome) == outcome

\* new Promise((resolve, reject) => ...): resolve()/reject() act on a pending
\* promise only
Settle(p, outcome) == IF p.state = "pending" THEN outcome ELSE p

\* ------------------------------------------------------------------ errors
NotConnectedError == [name |-> "Error", message |-> "Session is not connected"]
\* thrown by connection.request() on a connection that was closed
GoawayError == TransportError("ERR_HTTP2_GOAWAY_SESSION")

RequestTimeoutError(o, method, path, timeout) ==
    [name |-> "RequestTimeoutError", origin |-> o, method |-> method,
     path |-> path, timeout |-> timeout]

\* a timeout error that reports the session's default timeout
fromRequestManagerDefault(m) ==
    RequestTimeoutError(m.session.origin, m.method, m.path,
                        m.session.defaultOptions.timeout)

fromRequestManager(m) ==
    RequestTimeoutError(m.session.origin, m.method, m.path, m.timeout)

\* an error handler that substitutes its own error
errorRejectionWrapped(e) == Rejected([name |-> "RequestError", cause |-> e])

\* stream.on('error'): reject(error)
errorRejection(e) == Rejected(e)

\* --------------------------------------------------------------- JS values
Undefined == [type |-> "undefined"]
Num(n) == [type |-> "number", value |-> n]
NaN == [type |-> "NaN"]
Str(chars) == [type |-> "string", chars |-> chars]
Buf(data) == [type |-> "Buffer", data |-> data]
\* a plain object: its entries are <<key, digit>> pairs
Obj(entries) == [type |-> "object", entries |-> entries, circular |-> FALSE]
\* an object that refers to itself
CircularObj == [type |-> "object", entries |-> <<>>, circular |-> TRUE]

typeof(v) ==
    CASE v.type \in {"object", "Buffer", "array"} -> "object"
      [] v.type \in {"number", "NaN"} -> "number"
      [] OTHER -> v.type

isBuffer(v) == v.type = "Buffer"

isArray(v) == v.type = "array"

\* !v
Falsy(v) ==
    \/ v.type \in {"undefined", "NaN"}
    \/ v.type = "string" /\ v.chars = <<>>
    \/ v.type = "number" /\ v.value = 0

\* ----------------------------------------------------------------- headers
\* a header object is the sequence of its <<key, value>> entries in
\* insertion order
HasKey(h, k) == \E i \in 1..Len(h) : h[i][1] = k

IndexOf(h, k) == CHOOSE i \in 1..Len(h) : h[i][1] = k

\* h[k]: <<>> when the object has no such property, else <<value>>
Lookup(h, k) == IF HasKey(h, k) THEN <<h[IndexOf(h, k)][2]>> ELSE <<>>

\* h[k] = v: an existing property keeps its position, a new one goes last
Put(h, k, v) ==
    IF HasKey(h, k)
    THEN SubSeq(h, 1, IndexOf(h, k) - 1) \o <<(<<k, v>>)>>
            \o SubSeq(h, IndexOf(h, k) + 1, Len(h))
    ELSE Append(h, <<k, v>>)

RECURSIVE Spread(_, _)
\* { ...a, ...b }
Spread(a, b) ==
    IF b = <<>> THEN a ELSE Spread(Put(a, Head(b)[1], Head(b)[2]), Tail(b))

\* String.prototype.toLowerCase on the header names of the model
toLowerCase(k) ==
    CASE k = "X-Custom" -> "x-custom"
      [] k = "X-CUSTOM" -> "x-custom"
      [] k = "Content-Type" -> "content-type"
      [] k = "User-Agent" -> "user-agent"
      [] OTHER -> k

RECURSIVE lowercaseInto(_, _)
lowercaseInto(normalized, entries) ==
    IF entries = <<>> THEN normalized
    ELSE lowercaseInto(Put(normalized, toLowerCase(Head(entries)[1]),
                           Head(entries)[2]),
                       Tail(entries))

\* HeadersUtils.lowercase
lowercase(headers) == lowercaseInto(<<>>, headers)

\* ------------------------------------------------- Http2Session constructor
\* the options object given to the constructor; an optional member is <<>>
\* (absent) or <<value>>
SessionOptions(timeoutOpt, concurrencyOpt, headersOpt, protocolOpt) ==
    [timeout |-> timeoutOpt, concurrency |-> concurrencyOpt,
     headers |-> headersOpt, protocol |-> protocolOpt]

\* { headers: { 'user-agent': VORR_USER_AGENT, ...options.headers },
\*   timeout: 30000, ...options }: a member of options replaces the member of
\* the same name written before the spread
DefaultOptions(options) ==
    LET given == IF options.headers = <<>> THEN <<>> ELSE options.headers[1]
        withAgent == Spread(<<(<<"user-agent", VORR_USER_AGENT>>)>>, given)
    IN  [headers |-> IF options.headers = <<>> THEN withAgent ELSE given,
         timeout |-> IF options.timeout = <<>> THEN DefaultTimeout
                     ELSE options.timeout[1],
         concurrency |-> options.concurrency,
         protocol |-> options.protocol]

SessionDefaults(timeoutOpt, concurrencyOpt) ==
    DefaultOptions(SessionOptions(timeoutOpt, concurrencyOpt, <<>>, <<>>))

\* options.protocol, else h2 for https and h2c otherwise
ResolveProtocol(url, options) ==
    IF options.protocol # <<>> THEN options.protocol[1]
    ELSE IF url.protocol = "https:" THEN "h2" ELSE "h2c"

\* a validation that rejects h2 on a plaintext URL only
ProtocolMismatchH2Only(p, isHttps) == p = "h2" /\ ~isHttps

\* the two throws of the constructor
ProtocolMismatch(p, isHttps) ==
    \/ p = "h2" /\ ~isHttps
    \/ p = "h2c" /\ isHttps

SessionObservers == {"timeout", "error", "close"}

\* the fields of the session and the effects of its constructor
Http2SessionFields(url, options) ==
    LET p == ResolveProtocol(url, options)
        threw == ProtocolMismatch(p, url.protocol = "https:")
    IN  [origin |-> toString(url),
         defaultOptions |-> DefaultOptions(options),
         protocol |-> p,
         constructed |-> IF threw THEN "threw" ELSE "yes",
         connOpened |-> ~threw,
         observers |-> IF threw THEN {} ELSE SessionObservers,
         isConnected |-> ~threw,
         activeSessions |-> IF threw THEN 0 ELSE 1]

\* the body member of request options: absent, '', 'h\u00e9', two bytes,
\* {a: 1} and an object that cannot be serialized
Bodies ==
    {Undefined, Str(<<>>), Str(<<104, 233>>), Buf(<<1, 255>>),
     Obj(<<(<<(<<97>>), 1>>)>>), CircularObj}

\* ---------------------------------------------------------- RequestManager
Truthy(opt) == opt # <<>> /\ opt[1] # 0

\* the view of the session a RequestManager reads
SessionRef == [origin |-> origin, defaultOptions |-> defaultOptions]

\* options?.key: `absent' when the caller left the member out
Member(options, key, absent) ==
    IF key \in DOMAIN options THEN options[key] ELSE absent

\* new RequestManager(session, {method, path, options})
RequestManager(session, method, path, options) ==
    LET merged == Spread(session.defaultOptions.headers,
                         Member(options, "headers", <<>>))
    IN  [session |-> session,
         method |-> method,
         path |-> path,
         options |-> [headers |-> merged,
                      body |-> Member(options, "body", Undefined)],
         headers |-> lowercase(merged),
         timeout |-> IF Truthy(options.timeout) THEN options.timeout[1]
                     ELSE session.defaultOptions.timeout]

\* ------------------------------------------------------------- utils/http
\* a query value that is text
Text(s) == [type |-> "string", text |-> s]

\* the query member of request options: absent or {}, {test: 'value'} and
\* {q: 'a b', skip: undefined, n: 7}
Queries ==
    {<<>>,
     <<(<<"test", Text("value")>>)>>,
     <<(<<"q", Text("a b")>>), (<<"skip", Undefined>>), (<<"n", Num(7)>>)>>}

\* the application/x-www-form-urlencoded serialization URLSearchParams
\* applies to a name or a value, over the texts of the model
formEncode(s) ==
    CASE s = "a b" -> "a+b"
      [] OTHER -> s

RECURSIVE searchParams(_)
\* the name=value pairs the loop of buildPath appends
searchParams(entries) ==
    IF entries = <<>> THEN <<>>
    ELSE LET key == entries[1][1]
             value == entries[1][2]
             rest == searchParams(Tail(entries))
         IN  IF value.type = "undefined" THEN rest
             ELSE <<formEncode(key) \o "=" \o
                    (IF value.type = "number" THEN ToString(value.value)
                     ELSE formEncode(value.text))>> \o rest

RECURSIVE search(_)
\* url.search: the pairs joined by &, after a ?
search(pairs) ==
    IF pairs = <<>> THEN ""
    ELSE IF Len(pairs) = 1 THEN pairs[1]
    ELSE pairs[1] \o "&" \o search(Tail(pairs))

\* HttpUtils.buildPath(path, query), for a path that has no query of its own
buildPath(path, query) ==
    IF query = <<>> THEN path
    ELSE IF searchParams(query) = <<>> THEN path
    ELSE path \o "?" \o search(searchParams(query))

\* ------------------------------------------------------------ request body
RECURSIVE Decimal(_)
\* String(n) of a natural number, as code units
Decimal(n) ==
    IF n < 10 THEN <<48 + n>> ELSE Append(Decimal(n \div 10), 48 + (n % 10))

RECURSIVE Join(_, _)
\* Array.prototype.join of pieces of text
Join(pieces, sep) ==
    IF pieces = <<>> THEN <<>>
    ELSE IF Len(pieces) = 1 THEN pieces[1]
    ELSE pieces[1] \o sep \o Join(Tail(pieces), sep)

\* "key": a quoted member name or string
Quoted(chars) == <<34>> \o chars \o <<34>>

\* JSON.stringify(v) of an object or a Buffer: the text, or threw
JSONstringify(v) ==
    IF isBuffer(v)
    THEN \* Buffer.prototype.toJSON: {"type":"Buffer","data":[...]}
         [threw |-> FALSE,
          text |-> <<123>> \o Quoted(<<116, 121, 112, 101>>) \o <<58>>
                     \o Quoted(<<66, 117, 102, 102, 101, 114>>) \o <<44>>
                     \o Quoted(<<100, 97, 116, 97>>) \o <<58, 91>>
                     \o Join([i \in 1..Len(v.data) |-> Decimal(v.data[i])], <<44>>)
                     \o <<93, 125>>]
    ELSE IF v.circular
    THEN [threw |-> TRUE, text |-> <<>>]
    ELSE [threw |-> FALSE,
          text |-> <<123>>
                     \o Join([i \in 1..Len(v.entries) |->
                                Quoted(v.entries[i][1]) \o <<58>>
                                    \o Decimal(v.entries[i][2])], <<44>>)
                     \o <<125>>]

\* String(v) of a string or of a plain object ("[object Object]")
String(v) ==
    IF v.type = "string" THEN v.chars
    ELSE <<91, 111, 98, 106, 101, 99, 116, 32, 79, 98, 106, 101, 99, 116, 93>>

RECURSIVE Utf8(_)
\* Buffer.from(text): UTF-8, for code units below 0x800
Utf8(chars) ==
    IF chars = <<>> THEN <<>>
    ELSE (IF Head(chars) < 128 THEN <<Head(chars)>>
          ELSE <<192 + (Head(chars) \div 64), 128 + (Head(chars) % 64)>>)
         \o Utf8(Tail(chars))

\* !!this.headers['content-type']
HeaderTruthy(opt) == opt # <<>> /\ opt[1] # ""

\* an encoding rule that applies to an unset content-type only
ShouldEncodeUnsetOnly(body, contentType) ==
    typeof(body) = "object" /\ contentType = <<>>

\* typeof this.options.body === 'object' && isJsonHeader
ShouldEncode(body, contentType) ==
    /\ typeof(body) = "object"
    /\ (contentType = <<"application/json">> \/ ~HeaderTruthy(contentType))

\* RequestManager.handleRequestBody: the manager it leaves behind and the
\* argument of stream.end, <<>> when it is called without one
\* a content-length that counts the characters of the text, not its bytes
contentLengthOfText(body, bytes) ==
    ToString(IF isBuffer(body) THEN Len(body.data) ELSE Len(String(body)))

\* String(bytes.length)
contentLength(body, bytes) == ToString(Len(bytes))

handleRequestBody(m) ==
    IF Falsy(m.options.body) THEN [mngr |-> m, sent |-> <<>>]
    ELSE
    LET body == m.options.body
        encode == /\ ShouldEncode(body, Lookup(m.headers, "content-type"))
                  /\ ~JSONstringify(body).threw
        body1 == IF encode THEN Str(JSONstringify(body).text) ELSE body
        headers1 == IF encode
                    THEN Put(m.headers, "content-type", "application/json")
                    ELSE m.headers
        headers2 == IF ~HeaderTruthy(Lookup(headers1, "content-type"))
                    THEN Put(headers1, "content-type", "application/octet-stream")
                    ELSE headers1
        bytes == IF isBuffer(body1) THEN body1.data ELSE Utf8(String(body1))
    IN  [mngr |-> [m EXCEPT !.options.body = body1,
                            !.headers = Put(headers2, "content-length",
                                            contentLength(body1, bytes))],
         sent |-> <<bytes>>]

NoMngr == [method |-> "none"]
NoCall == [method |-> "none"]

\* a configuration that reports the headers member of the options
getRequestConfigOptionHeaders(m) ==
    [session |-> m.session, method |-> m.method, headers |-> m.options.headers,
     options |-> m.options, path |-> m.path, timeout |-> m.timeout]

getRequestConfig(m) ==
    [session |-> m.session, method |-> m.method, headers |-> m.headers,
     options |-> m.options, path |-> m.path, timeout |-> m.timeout]

\* ---------------------------------------------------------------- response
IsDigit(c) == c \in 48..57

RECURSIVE SkipSpace(_)
SkipSpace(chars) ==
    IF chars # <<>> /\ Head(chars) \in {9, 10, 13, 32}
    THEN SkipSpace(Tail(chars)) ELSE chars

RECURSIVE LeadingDigits(_, _)
\* the value of the digits chars starts with, after the digits of acc
LeadingDigits(chars, acc) ==
    IF chars # <<>> /\ IsDigit(Head(chars))
    THEN LeadingDigits(Tail(chars), 10 * acc + (Head(chars) - 48))
    ELSE acc

\* parseInt(text, 10)
parseInt(chars) ==
    LET t == SkipSpace(chars)
        signed == t # <<>> /\ Head(t) \in {43, 45}
        digits == IF signed THEN Tail(t) ELSE t
    IN  IF digits = <<>> \/ ~IsDigit(Head(digits)) THEN NaN
        ELSE IF signed /\ Head(t) = 45 THEN Num(0 - LeadingDigits(digits, 0))
        ELSE Num(LeadingDigits(digits, 0))

\* the metadata object the transport delivers with the response event
ResponseHeaders(status) ==
    (IF status.type = "undefined" THEN <<>> ELSE <<(<<":status", status>>)>>)
        \o <<(<<"content-type", "text/plain">>)>>

\* delete headers[key]
Delete(h, k) == SelectSeq(h, LAMBDA e : e[1] # k)

\* RequestManager.handleResponseHeaders
handleResponseHeaders(headers, c) ==
    LET status == IF HasKey(headers, ":status")
                  THEN Lookup(headers, ":status")[1] ELSE Undefined
    IN  [c EXCEPT
           !.statusCode =
               IF typeof(status) = "string" THEN parseInt(status.chars)
               ELSE IF isArray(status) /\ Len(status.items) > 0
                    THEN parseInt(status.items[1].chars)
               ELSE Num(-1),
           !.headers = Delete(headers, ":status")]

\* RequestManager.handleResponseData: Buffer.concat([ctx.rawBody, chunk])
\* a data handler that keeps only the newest fragment
handleResponseDataLast(chunk, c) == [c EXCEPT !.rawBody = chunk]

handleResponseData(chunk, c) == [c EXCEPT !.rawBody = @ \o chunk]

\* Http2Response.fromRequestContext(ctx, config)
fromRequestContext(c, config) ==
    [statusCode |-> c.statusCode, responseHeaders |-> c.headers,
     buffer |-> c.rawBody, request |-> config]

RECURSIVE Utf8Decode(_)
\* buffer.toString('utf-8'), for sequences of one and two bytes
Utf8Decode(bytes) ==
    IF bytes = <<>> THEN <<>>
    ELSE IF Head(bytes) < 128 THEN <<Head(bytes)>> \o Utf8Decode(Tail(bytes))
    ELSE IF /\ Head(bytes) \in 192..223
            /\ Len(bytes) >= 2
            /\ bytes[2] \in 128..191
         THEN <<(Head(bytes) - 192) * 64 + (bytes[2] - 128)>>
                 \o Utf8Decode(Tail(Tail(bytes)))
    ELSE <<65533>> \o Utf8Decode(Tail(bytes))

SyntaxError == [name |-> "SyntaxError"]

\* JSON.parse(text), for the texts made of digits and for '{}'
JSONparse(chars) ==
    IF chars # <<>> /\ \A i \in 1..Len(chars) : IsDigit(chars[i])
    THEN Fulfilled(Num(LeadingDigits(chars, 0)))
    ELSE IF chars = <<123, 125>> THEN Fulfilled(Obj(<<>>))
    ELSE Rejected(SyntaxError)

\* a text() that decodes an empty body to the empty string
textEmptyString(resp) == Fulfilled(Str(Utf8Decode(resp.buffer)))

\* Http2Response.text
text(resp) ==
    IF Len(resp.buffer) = 0 THEN Fulfilled(Undefined)
    ELSE Fulfilled(Str(Utf8Decode(resp.buffer)))

\* Http2Response.json
json(resp) ==
    IF Falsy(text(resp).value) THEN Fulfilled(Undefined)
    ELSE JSONparse(text(resp).value.chars)

NoStream == [opened |-> FALSE, opens |-> 0,
             headers |-> <<>>, armed |-> <<>>, ended |-> FALSE,
             sent |-> <<>>, closes |-> 0]
NoCtx == [error |-> <<>>, statusCode |-> Undefined, headers |-> <<>>,
          rawBody |-> <<>>]
\* nothing delivered yet; status is the last pseudo-status delivered
NoneReceived ==
    [response |-> 0, data |-> 0, status |-> Undefined, fragments |-> <<>>]

\* the reaction registered on the lifecycle's promise by whoever started it
Reaction(r, how) ==
    IF how = "pool" THEN <<[kind |-> "finally", r |-> r]>>
    ELSE <<[kind |-> "await", r |-> r]>>

\* the jobs queued when `outcome' is given to the promise of r
ReactionsOn(r, how) == IF IsSettled(result[r]) THEN <<>> ELSE Reaction(r, how)


\* a hook that records the observation but leaves the stream open
postRequestHookNoClose(r) ==
    /\ activeRequests' = activeRequests - 1
    /\ durationRecords' = [durationRecords EXCEPT ![r] = @ + 1]
    /\ stream' = stream

\* a hook that closes every stream of the connection
postRequestHookAll(r) ==
    /\ activeRequests' = activeRequests - 1
    /\ durationRecords' = [durationRecords EXCEPT ![r] = @ + 1]
    /\ stream' = [s \in Ids |->
                    IF stream[s].opened
                    THEN [stream[s] EXCEPT !.closes = @ + 1] ELSE stream[s]]

\* RequestManager.postRequestHook(ctx)
postRequestHook(r) ==
    /\ activeRequests' = activeRequests - 1
    /\ durationRecords' = [durationRecords EXCEPT ![r] = @ + 1]
    /\ stream' = [stream EXCEPT ![r].closes = @ + 1]

\* resolve(outcome) / reject(outcome) on the promise of lifecycle r
settle(r, outcome) ==
    /\ result' = [result EXCEPT ![r] = Settle(@, outcome)]
    /\ settleCount' = [settleCount EXCEPT
                         ![r] = IF result'[r] # result[r] THEN @ + 1 ELSE @]
    /\ microtasks' = microtasks \o ReactionsOn(r, via[r])

\* the transport delivers terminal event ev on the stream of r
deliver(r, ev) ==
    /\ firstEvent' = [firstEvent EXCEPT ![r] = IF @ = <<>> THEN <<ev>> ELSE @]
    /\ nEvents' = [nEvents EXCEPT ![r] = @ + 1]

RECURSIVE SumTo(_, _)
SumTo(f, n) == IF n = 0 THEN 0 ELSE f[n] + SumTo(f, n - 1)

\* the stream of r exists, so the transport may deliver an event on it
CanDeliver(r) == stream[r].opened /\ SumTo(nEvents, Len(nEvents)) < MaxEvents

\* jobs queued by doRequest itself: the promise is already rejected when the
\* executor threw
StartJobs(r, how) == IF connClosed THEN Reaction(r, how) ELSE <<>>

\* RequestManager.doRequest: the promise executor, run synchronously
doRequest(r, m) ==
    /\ activeRequests' = activeRequests + 1          \* preRequestHook
    /\ totalRequests' = totalRequests + 1
    /\ IF connClosed
       THEN \* connection.request() throws on a closed connection; the
            \* executor's exception rejects the promise
            /\ result' = [result EXCEPT ![r] = Rejected(GoawayError)]
            /\ settleCount' = [settleCount EXCEPT ![r] = @ + 1]
            /\ mngr' = [mngr EXCEPT ![r] = m]
            /\ UNCHANGED <<stream, ctx>>
       ELSE /\ stream' = [stream EXCEPT
                            ![r] = [opened |-> TRUE,
                                    opens |-> @.opens + 1,
                                    headers |-> Spread(<<(<<":method", m.method>>),
                                                         (<<":path", m.path>>)>>,
                                                       m.headers),
                                    armed |-> Append(@.armed, m.timeout),
                                    ended |-> TRUE,
                                    sent |-> handleRequestBody(m).sent,
                                    closes |-> 0]]
            /\ mngr' = [mngr EXCEPT ![r] = handleRequestBody(m).mngr]
            /\ ctx' = [ctx EXCEPT ![r] = NoCtx]
            /\ UNCHANGED <<result, settleCount>>

\* stream.setTimeout(this.timeout, callback): the callback is a one-shot
\* listener
StreamTimeout(r) ==
    /\ CanDeliver(r)
    /\ ~timeoutFired[r]
    /\ stream[r].armed[1] > 0     \* setTimeout(0, callback) arms no watch
    /\ timeoutFired' = [timeoutFired EXCEPT ![r] = TRUE]
    /\ postRequestHook(r)
    /\ settle(r, Rejected(fromRequestManager(mngr[r])))
    /\ deliver(r, [kind |-> "timeout"])
    /\ UNCHANGED <<sessionVars, poolVars, nextId, via, call, mngr, ctx, callResult,
                   totalRequests, enqOrder, startOrder, releaseCount,
                   responseVars>>

\* stream.on('end')
StreamEnd(r) ==
    /\ CanDeliver(r)
    /\ postRequestHook(r)
    /\ settle(r, Fulfilled(fromRequestContext(ctx[r], getRequestConfig(mngr[r]))))
    /\ deliver(r, [kind |-> "end"])
    /\ UNCHANGED <<sessionVars, poolVars, nextId, via, call, mngr, ctx, callResult,
                   totalRequests, timeoutFired, enqOrder, startOrder,
                   releaseCount, responseVars>>

\* an error handler that opens the stream again instead of rejecting
StreamErrorRetry(r, e) ==
    /\ CanDeliver(r)
    /\ ctx' = [ctx EXCEPT ![r].error = <<e>>]
    /\ activeRequests' = activeRequests - 1
    /\ durationRecords' = [durationRecords EXCEPT ![r] = @ + 1]
    /\ stream' = [stream EXCEPT ![r].closes = @ + 1, ![r].opens = @ + 1,
                                ![r].armed = Append(@, mngr[r].timeout)]
    /\ deliver(r, [kind |-> "error", error |-> e])
    /\ UNCHANGED <<sessionVars, poolVars, nextId, via, call, mngr, callResult,
                   result, settleCount, microtasks, totalRequests, timeoutFired,
                   enqOrder, startOrder, releaseCount, responseVars>>

\* stream.on('error')
StreamError(r, e) ==
    /\ CanDeliver(r)
    /\ ctx' = [ctx EXCEPT ![r].error = <<e>>]
    /\ postRequestHook(r)
    /\ settle(r, errorRejection(e))
    /\ deliver(r, [kind |-> "error", error |-> e])
    /\ UNCHANGED <<sessionVars, poolVars, nextId, via, call, mngr, callResult,
                   totalRequests, timeoutFired, enqOrder, startOrder,
                   releaseCount, responseVars>>

\* stream.on('response'): the transport delivers the metadata once, before
\* the stream's terminal events
StreamResponse(r, status) ==
    /\ stream[r].opened
    /\ nEvents[r] = 0
    /\ received[r].response = 0
    /\ ctx' = [ctx EXCEPT ![r] = handleResponseHeaders(ResponseHeaders(status), @)]
    /\ received' = [received EXCEPT ![r].response = 1, ![r].status = status]
    /\ UNCHANGED <<sessionVars, poolVars, nextId, via, call, mngr, stream, result,
                   callResult, meterVars, microtasks, historyVars, textResult,
                   jsonResult>>

\* a data handler that writes into one context shared by all lifecycles
StreamDataShared(r, chunk) ==
    /\ stream[r].opened
    /\ nEvents[r] = 0
    /\ received[r].data < MaxChunks
    /\ ctx' = [s \in Ids |-> handleResponseData(chunk, ctx[s])]
    /\ received' = [received EXCEPT ![r].data = @ + 1,
                                    ![r].fragments = Append(@, chunk)]
    /\ UNCHANGED <<sessionVars, poolVars, nextId, via, call, mngr, stream, result,
                   callResult, meterVars, microtasks, historyVars, textResult,
                   jsonResult>>

\* stream.on('data')
StreamData(r, chunk) ==
    /\ stream[r].opened
    /\ nEvents[r] = 0
    /\ received[r].data < MaxChunks
    /\ ctx' = [ctx EXCEPT ![r] = handleResponseData(chunk, @)]
    /\ received' = [received EXCEPT ![r].data = @ + 1,
                                    ![r].fragments = Append(@, chunk)]
    /\ UNCHANGED <<sessionVars, poolVars, nextId, via, call, mngr, stream, result,
                   callResult, meterVars, microtasks, historyVars, textResult,
                   jsonResult>>

\* the caller of a verb reads the Response it was given: await response.text()
CallText(r) ==
    /\ callResult[r].state = "fulfilled"
    /\ textResult[r] = Pending
    /\ textResult' = [textResult EXCEPT ![r] = text(callResult[r].value)]
    /\ UNCHANGED <<sessionVars, poolVars, requestVars, meterVars, microtasks,
                   historyVars, received, jsonResult>>

\* await response.json()
CallJson(r) ==
    /\ callResult[r].state = "fulfilled"
    /\ jsonResult[r] = Pending
    /\ jsonResult' = [jsonResult EXCEPT ![r] = json(callResult[r].value)]
    /\ UNCHANGED <<sessionVars, poolVars, requestVars, meterVars, microtasks,
                   historyVars, received, textResult>>

\* ------------------------------------------------------------- Http2Session
\* a counter that is written from a stale read
nextRequestCountStale(n) == 1

\* this.requestCount + 1
nextRequestCount(n) == n + 1

\* a request that never looks at the connectivity flag
notConnectedNever(connected) == FALSE

\* if (!this.isConnected)
notConnected(connected) == ~connected

\* Http2Session.request, up to its await
request(method, path, options) ==
    /\ LET r == nextId IN
       /\ nextId' = r + 1
       /\ via' = [via EXCEPT ![r] = "session"]
       /\ call' = [call EXCEPT ![r] = [method |-> method, path |-> path,
                                       options |-> options]]
       /\ IF notConnected(isConnected)
          THEN /\ callResult' = [callResult EXCEPT
                                   ![r] = Rejected(NotConnectedError)]
               /\ UNCHANGED <<sessionVars, mngr, stream, ctx, result, meterVars,
                              microtasks, settleCount>>
          ELSE LET m == RequestManager(SessionRef, method, path, options) IN
               /\ requestCount' = nextRequestCount(requestCount)
               /\ doRequest(r, m)
               /\ microtasks' = microtasks \o StartJobs(r, "session")
               /\ UNCHANGED <<origin, defaultOptions, isConnected, connClosed,
                              ctorVars, sessionMeterVars, closeCalls,
                              sessionEvents, callResult, durationRecords>>
    /\ UNCHANGED <<poolVars, firstEvent, nEvents, timeoutFired, enqOrder,
                   startOrder, releaseCount, responseVars>>

get(path, options) == request("GET", path, options)

post(path, options) == request("POST", path, options)

\* Http2Session.request after `await mngr.doRequest()': return or rethrow
SessionAwait ==
    /\ microtasks # <<>>
    /\ Head(microtasks).kind = "await"
    /\ LET r == Head(microtasks).r IN
       callResult' = [callResult EXCEPT ![r] = result[r]]
    /\ microtasks' = Tail(microtasks)
    /\ UNCHANGED <<sessionVars, poolVars, nextId, via, call, mngr, stream, ctx, result,
                   meterVars, historyVars, responseVars>>

\* Http2Session.cleanup
cleanup ==
    /\ isConnected' = FALSE
    /\ activeSessions' = activeSessions - 1
    /\ sessionDurationRecords' = sessionDurationRecords + 1
    /\ requestsPerSessionRecords' =
         Append(requestsPerSessionRecords, requestCount)

\* a close() that does not look at the connectivity flag
closeUnguarded ==
    /\ closeCalls' = closeCalls + 1
    /\ connClosed' = TRUE
    /\ cleanup
    /\ UNCHANGED <<origin, defaultOptions, requestCount, ctorVars, sessionEvents,
                   poolVars, requestVars, meterVars, microtasks, historyVars,
                   responseVars>>

\* Http2Session.close
close ==
    /\ closeCalls' = closeCalls + 1
    /\ IF isConnected
       THEN connClosed' = TRUE /\ cleanup
       ELSE UNCHANGED <<isConnected, connClosed, sessionMeterVars>>
    /\ UNCHANGED <<origin, defaultOptions, requestCount, ctorVars, sessionEvents,
                   poolVars, requestVars, meterVars, microtasks, historyVars,
                   responseVars>>

\* Http2Session.isAlive
isAlive == isConnected

\* new Http2Session(url, options), run as a step
Http2Session(url, options) ==
    /\ constructed = "no"
    /\ LET f == Http2SessionFields(url, options) IN
       /\ origin' = f.origin
       /\ defaultOptions' = f.defaultOptions
       /\ protocol' = f.protocol
       /\ constructed' = f.constructed
       /\ connOpened' = f.connOpened
       /\ observers' = f.observers
       /\ isConnected' = f.isConnected
       /\ activeSessions' = activeSessions + f.activeSessions
    /\ ctorArgs' = [url |-> url, options |-> options]
    /\ UNCHANGED <<requestCount, connClosed, sessionDurationRecords,
                   requestsPerSessionRecords, closeCalls, sessionEvents,
                   poolVars, requestVars, meterVars, microtasks, historyVars,
                   responseVars>>

\* an observer the constructor registered on the connection runs
OnSessionEvent(ev) ==
    /\ ev \in observers
    /\ sessionEvents < MaxSessionEvents
    /\ sessionEvents' = sessionEvents + 1
    /\ cleanup
    /\ UNCHANGED <<origin, defaultOptions, requestCount, ctorVars, closeCalls,
                   poolVars, requestVars, meterVars, microtasks, historyVars,
                   responseVars>>

\* this.session.on('timeout'): the connection stays open
OnSessionTimeout == OnSessionEvent("timeout") /\ UNCHANGED connClosed

\* this.session.on('error'): the transport has destroyed the connection
OnSessionError == OnSessionEvent("error") /\ connClosed' = TRUE

\* this.session.on('close')
OnSessionClose == OnSessionEvent("close") /\ connClosed' = TRUE

\* -------------------------------------------------------------- RequestPool
\* Counter
increment(count, by) == count + by

decrement(count, by) == count - by

\* an admission test that lets one request too many through
HasFreeSlotInclusive(count, limit) == count <= limit

\* acquire: this.active.getCount() < this.concurrency
HasFreeSlot(count, limit) == count < limit

\* a queue that serves the newest waiter first
pop(q) == <<q[Len(q)], SubSeq(q, 1, Len(q) - 1)>>

\* Array.prototype.shift: the oldest entry and the rest
shift(q) == <<Head(q), Tail(q)>>

\* a cleanup that runs on success only (.then instead of .finally)
ReleasesOnThen(p) == p.state = "fulfilled"

\* .finally(() => this.release()) runs on either outcome
ReleasesOn(p) == p.state \in {"fulfilled", "rejected"}

\* a promotion that leaves the increment to the waiter's resumption
promoteLater(count) == count

\* the closure acquire() queued, called by release(): the increment on the
\* waiter's behalf (its resolve() is the ResumeJob)
promote(count) == increment(count, 1)

ResumeJob(r) == [kind |-> "resume", r |-> r]

\* RequestPool.doRequest(mngr) up to `await this.acquire()'; the manager is
\* built by the caller
PoolDoRequest(method, path, options) ==
    /\ nextId <= MaxGateReq
    /\ LET r == nextId IN
       /\ nextId' = r + 1
       /\ via' = [via EXCEPT ![r] = "pool"]
       /\ call' = [call EXCEPT ![r] = [method |-> method, path |-> path,
                                       options |-> options]]
       /\ mngr' = [mngr EXCEPT
                     ![r] = RequestManager(SessionRef, method, path, options)]
       /\ IF HasFreeSlot(active, concurrency)
          THEN /\ active' = increment(active, 1)
               /\ microtasks' = Append(microtasks, ResumeJob(r))
               /\ UNCHANGED <<queue, enqOrder>>
          ELSE /\ queue' = Append(queue, r)
               /\ enqOrder' = Append(enqOrder, r)
               /\ UNCHANGED <<active, microtasks>>
    /\ UNCHANGED <<sessionVars, concurrency, stream, ctx, result, callResult,
                   meterVars, firstEvent, nEvents, timeoutFired, settleCount,
                   startOrder, releaseCount, responseVars>>

\* RequestPool.doRequest after `await this.acquire()': mngr.doRequest()
PoolResume ==
    /\ microtasks # <<>>
    /\ Head(microtasks).kind = "resume"
    /\ LET r == Head(microtasks).r IN
       /\ doRequest(r, mngr[r])
       /\ startOrder' = Append(startOrder, r)
       /\ microtasks' = Tail(microtasks) \o StartJobs(r, "pool")
    /\ UNCHANGED <<sessionVars, poolVars, nextId, via, call, callResult,
                   durationRecords, firstEvent, nEvents, timeoutFired, enqOrder,
                   releaseCount, responseVars>>

\* the .finally callback of RequestPool.doRequest: release(), then the
\* caller's promise takes the lifecycle's outcome
PoolFinally ==
    /\ microtasks # <<>>
    /\ Head(microtasks).kind = "finally"
    /\ LET r == Head(microtasks).r
           released == decrement(active, 1)
       IN
       /\ callResult' = [callResult EXCEPT ![r] = result[r]]
       /\ IF ReleasesOn(result[r])
          THEN /\ releaseCount' = [releaseCount EXCEPT ![r] = @ + 1]
               /\ IF queue # <<>>
                  THEN /\ active' = promote(released)
                       /\ queue' = shift(queue)[2]
                       /\ microtasks' = Append(Tail(microtasks),
                                               ResumeJob(shift(queue)[1]))
                  ELSE /\ active' = released
                       /\ microtasks' = Tail(microtasks)
                       /\ UNCHANGED queue
          ELSE /\ microtasks' = Tail(microtasks)
               /\ UNCHANGED <<active, queue, releaseCount>>
    /\ UNCHANGED <<sessionVars, concurrency, nextId, via, call, mngr, stream, ctx,
                   result, meterVars, firstEvent, nEvents, timeoutFired,
                   settleCount, enqOrder, startOrder, responseVars>>

\* ----------------------------------------------------------- specifications
InitRequests ==
    /\ nextId = 1
    /\ via = [r \in Ids |-> "none"]
    /\ call = [r \in Ids |-> NoCall]
    /\ mngr = [r \in Ids |-> NoMngr]
    /\ stream = [r \in Ids |-> NoStream]
    /\ ctx = [r \in Ids |-> NoCtx]
    /\ result = [r \in Ids |-> Pending]
    /\ callResult = [r \in Ids |-> Pending]
    /\ activeRequests = 0
    /\ totalRequests = 0
    /\ durationRecords = [r \in Ids |-> 0]
    /\ microtasks = <<>>
    /\ firstEvent = [r \in Ids |-> <<>>]
    /\ nEvents = [r \in Ids |-> 0]
    /\ timeoutFired = [r \in Ids |-> FALSE]
    /\ settleCount = [r \in Ids |-> 0]
    /\ enqOrder = <<>>
    /\ startOrder = <<>>
    /\ releaseCount = [r \in Ids |-> 0]
    /\ received = [r \in Ids |-> NoneReceived]
    /\ textResult = [r \in Ids |-> Pending]
    /\ jsonResult = [r \in Ids |-> Pending]

\* the session of the run was constructed from (url, options)
Constructed(url, options) ==
    /\ LET f == Http2SessionFields(url, options) IN
       /\ origin = f.origin
       /\ defaultOptions = f.defaultOptions
       /\ protocol = f.protocol
       /\ constructed = f.constructed
       /\ connOpened = f.connOpened
       /\ observers = f.observers
       /\ isConnected = f.isConnected
       /\ activeSessions = f.activeSessions
    /\ ctorArgs = [url |-> url, options |-> options]
    /\ requestCount = 0
    /\ connClosed = FALSE
    /\ sessionDurationRecords = 0
    /\ requestsPerSessionRecords = <<>>
    /\ closeCalls = 0
    /\ sessionEvents = 0

\* new Http2Session(origin, options)
InitSession(timeoutOpts, concurrencyOpts) ==
    \E url \in Origins, t \in timeoutOpts, c \in concurrencyOpts :
        Constructed(url, SessionOptions(t, c, <<>>, <<>>))

\* the fields of a session whose constructor has not run yet
InitUnconstructed ==
    /\ origin = ""
    /\ defaultOptions = DefaultOptions(SessionOptions(<<>>, <<>>, <<>>, <<>>))
    /\ protocol = ""
    /\ constructed = "no"
    /\ connOpened = FALSE
    /\ observers = {}
    /\ isConnected = FALSE
    /\ activeSessions = 0
    /\ ctorArgs = [url |-> URL("", ""), options |-> SessionOptions(<<>>, <<>>, <<>>, <<>>)]
    /\ requestCount = 0
    /\ connClosed = FALSE
    /\ sessionDurationRecords = 0
    /\ requestsPerSessionRecords = <<>>
    /\ closeCalls = 0
    /\ sessionEvents = 0

\* new RequestPool(limit)
InitPool(limits) ==
    /\ concurrency \in limits
    /\ active = 0
    /\ queue = <<>>

StreamEvent(errors) ==
    \E r \in Ids :
        \/ StreamEnd(r)
        \/ StreamTimeout(r)
        \/ \E e \in errors : StreamError(r, e)

\* a session whose verbs are called concurrently, up to MaxReq calls
Init ==
    /\ InitSession({<<>>}, ConcurrencyOptions)
    /\ InitPool({DefaultConcurrency})
    /\ InitRequests

Verb(timeouts) ==
    \E path \in Paths, t \in timeouts :
        \/ get(path, [timeout |-> t])
        \/ post(path, [timeout |-> t])

Next ==
    \/ nextId <= MaxReq /\ Verb({<<>>})
    \/ closeCalls = 0 /\ close
    \/ SessionAwait
    \/ StreamEvent({TransportError("ECONNRESET")})

Spec == Init /\ [][Next]_vars

\* one verb call, over every session-level and request-level timeout
InitLifecycle ==
    /\ InitSession(SessionTimeouts, {<<>>})
    /\ InitPool({DefaultConcurrency})
    /\ InitRequests

NextLifecycle ==
    \/ nextId <= 1 /\ Verb(RequestTimeouts)
    \/ closeCalls = 0 /\ close
    \/ SessionAwait
    \/ StreamEvent(Errors)

SpecLifecycle == InitLifecycle /\ [][NextLifecycle]_vars

\* the first terminal event of the stream of r: end, error or the armed
\* timeout
FirstTerminal(r) ==
    /\ nEvents[r] = 0
    /\ \/ StreamEnd(r)
       \/ StreamTimeout(r)
       \/ \E e \in Errors : StreamError(r, e)

\* one verb call on a transport that delivers a terminal event on every
\* opened stream, the job queue being run until it is empty
SpecLifecycleLive ==
    /\ InitLifecycle
    /\ [][NextLifecycle]_vars
    /\ WF_vars(SessionAwait)
    /\ \A r \in Ids : WF_vars(FirstTerminal(r))

\* a gate of limit 0..MaxLimit running lifecycles of one session; the
\* constructor of RequestPool stores any number it is given
InitGate ==
    /\ InitSession({<<>>}, {<<>>})
    /\ InitPool(0..MaxLimit)
    /\ InitRequests

PoolSubmit ==
    \E path \in Paths : PoolDoRequest("GET", path, [timeout |-> <<>>])

NextGate ==
    \/ PoolSubmit
    \/ PoolResume
    \/ PoolFinally
    \/ closeCalls = 0 /\ close
    \/ StreamEvent({TransportError("ECONNRESET")})

SpecGate == InitGate /\ [][NextGate]_vars

\* the gate under the scheduling the program runs with: the job queue is run
\* until it is empty, and every opened stream delivers one terminal event
\* (each stream arms a timeout, which fires when nothing else arrives)
Terminal(r) == nEvents[r] = 0 /\ (StreamEnd(r) \/ StreamTimeout(r))

NextGateLive ==
    \/ PoolSubmit
    \/ PoolResume
    \/ PoolFinally
    \/ closeCalls = 0 /\ close
    \/ \E r \in Ids : Terminal(r)

SpecGateLive ==
    /\ InitGate
    /\ [][NextGateLive]_vars
    /\ WF_vars(PoolResume)
    /\ WF_vars(PoolFinally)
    /\ \A r \in Ids : WF_vars(Terminal(r))

\* a session from its construction on: at most two verb calls, each stream
\* delivering at most one terminal event
InitSessionLife ==
    /\ InitUnconstructed
    /\ InitPool({DefaultConcurrency})
    /\ InitRequests

Construct ==
    \E url \in SessionOrigins, p \in ProtocolOptions :
        Http2Session(url, SessionOptions(<<>>, <<>>, <<>>, p))

NextSession ==
    \/ Construct
    \/ constructed = "yes" /\ nextId <= 2 /\ Verb({<<>>})
    \/ constructed = "yes" /\ closeCalls < MaxCloseCalls /\ close
    \/ OnSessionTimeout
    \/ OnSessionError
    \/ OnSessionClose
    \/ SessionAwait
    \/ \E r \in Ids : nEvents[r] = 0 /\ StreamEnd(r)

SpecSession == InitSessionLife /\ [][NextSession]_vars

\* one POST over every header, body and timeout option, its stream
\* delivering at most one terminal event
InitMerge ==
    /\ \E url \in Origins, h \in SessionHeaderOptions :
           Constructed(url, SessionOptions(<<>>, <<>>, h, <<>>))
    /\ InitPool({DefaultConcurrency})
    /\ InitRequests

PostWithOptions ==
    \E path \in Paths, h \in RequestHeaders, b \in Bodies, t \in MergeTimeouts,
       q \in Queries :
        post(path, [headers |-> h, body |-> b, timeout |-> t, query |-> q])

NextMerge ==
    \/ nextId <= 1 /\ PostWithOptions
    \/ SessionAwait
    \/ \E r \in Ids : nEvents[r] = 0 /\ StreamEnd(r)
    \/ \E r \in Ids : nEvents[r] = 0 /\ StreamTimeout(r)

SpecMerge == InitMerge /\ [][NextMerge]_vars

\* one GET, the response metadata and data fragments of its stream, one
\* terminal event and the caller's reads of the Response
InitResponse ==
    /\ InitSession({<<>>}, {<<>>})
    /\ InitPool({DefaultConcurrency})
    /\ InitRequests

NextResponse ==
    \/ nextId <= 1 /\ \E path \in Paths : get(path, [timeout |-> <<>>])
    \/ \E r \in Ids, status \in StatusValues : StreamResponse(r, status)
    \/ \E r \in Ids, chunk \in Chunks : StreamData(r, chunk)
    \/ \E r \in Ids : nEvents[r] = 0 /\ StreamEnd(r)
    \/ \E r \in Ids : nEvents[r] = 0 /\ StreamTimeout(r)
    \/ SessionAwait
    \/ \E r \in Ids : CallText(r)
    \/ \E r \in Ids : CallJson(r)

SpecResponse == InitResponse /\ [][NextResponse]_vars

\* two GETs of one session whose streams deliver response metadata ('204'
\* or ['404']), data fragments ('1' or 'x') and one terminal event each, in
\* any interleaving
NextShared ==
    \/ nextId <= 2 /\ \E path \in Paths : get(path, [timeout |-> <<>>])
    \/ \E r \in Ids :
         \E status \in {Str(<<50, 48, 52>>),
                         [type |-> "array", items |-> <<Str(<<52, 48, 52>>)>>]} :
            StreamResponse(r, status)
    \/ \E r \in Ids, chunk \in {<<49>>, <<120>>} : StreamData(r, chunk)
    \/ \E r \in Ids : nEvents[r] = 0 /\ StreamEnd(r)
    \/ \E r \in Ids : nEvents[r] = 0 /\ StreamError(r, TransportError("ECONNRESET"))
    \/ SessionAwait

SpecShared == InitResponse /\ [][NextShared]_vars

\* ------------------------------------------------------------------ claims
InSeq(x, q) == \E i \in 1..Len(q) : q[i] = x
IsPrefixOf(p, q) == Len(p) <= Len(q) /\ SubSeq(q, 1, Len(p)) = p
IsSuffixOf(p, q) ==
    Len(p) <= Len(q) /\ SubSeq(q, Len(q) - Len(p) + 1, Len(q)) = p

Submitted == 1..(nextId - 1)
WasQueued(r) == InSeq(r, enqOrder)
\* lifecycles the gate has started and that have not settled
GateRunning == {r \in Submitted : InSeq(r, startOrder) /\ ~IsSettled(result[r])}

\* C1: the number of lifecycles the gate has started and that have not yet
\* settled never exceeds the limit, and 0 <= active <= limit in every state.
C1_GateNeverExceedsLimit ==
    /\ Cardinality(GateRunning) <= concurrency
    /\ 0 <= active
    /\ active <= concurrency

\* the gate is full, as many lifecycles run as the limit allows, one waits
C1_Witness ==
    /\ concurrency >= 1
    /\ active = concurrency
    /\ Cardinality(GateRunning) = concurrency
    /\ queue # <<>>

\* C2: waiters are served in strict FIFO order: the waiters that left the
\* queue are the oldest ones, and the lifecycles of waiters are started in the
\* order in which the waiters were queued.
C2_WaitersServedFifo ==
    /\ IsSuffixOf(queue, enqOrder)
    /\ IsPrefixOf(SelectSeq(startOrder, WasQueued), enqOrder)

\* two waiters were queued and the lifecycles of both have been started
C2_Witness ==
    /\ Len(enqOrder) >= 2
    /\ Len(SelectSeq(startOrder, WasQueued)) >= 2

\* C3: every admitted execution releases its slot exactly once, after its
\* lifecycle settled, whether it resolved or rejected; once every submitted
\* lifecycle has settled and the job queue has run, active is 0 and the
\* waiting queue is empty.
C3_SlotReleasedExactlyOnce ==
    /\ \A r \in Ids :
        /\ releaseCount[r] <= 1
        /\ releaseCount[r] = 1 => IsSettled(result[r])
        /\ IsSettled(callResult[r]) => releaseCount[r] = 1
    /\ ((\A r \in Submitted : IsSettled(result[r])) /\ microtasks = <<>>)
        => (active = 0 /\ queue = <<>> /\
            \A r \in Submitted : releaseCount[r] = 1)

\* all lifecycles were submitted and have settled, one resolved, one rejected,
\* one received a second terminal event, and the gate is idle again
C3_Witness ==
    /\ nextId > MaxGateReq
    /\ \A r \in Submitted : IsSettled(callResult[r]) /\ releaseCount[r] = 1
    /\ \E r \in Submitted : result[r].state = "fulfilled"
    /\ \E r \in Submitted : result[r].state = "rejected"
    /\ \E r \in Submitted : nEvents[r] >= 2
    /\ active = 0

\* requests of the session whose stream is open and whose lifecycle is not
\* yet terminal
InFlight ==
    {r \in Submitted :
        via[r] = "session" /\ stream[r].opened /\ ~IsSettled(result[r])}

\* C4: a session constructed with a concurrency limit N never has more than
\* N of its requests in flight at the same time.
C4_SessionLimitRespected ==
    defaultOptions.concurrency # <<>>
        => Cardinality(InFlight) <= defaultOptions.concurrency[1]

FirstKind(r) == IF firstEvent[r] = <<>> THEN "none" ELSE firstEvent[r][1].kind

\* C5: the lifecycle's result is settled at most once and by the first
\* terminal event only: end first gives a response, error first gives that
\* error, timeout first gives a timeout error, whatever arrives later.
C5_FirstTerminalEventWins ==
    \A r \in Ids :
        /\ settleCount[r] <= 1
        /\ FirstKind(r) # "none" => settleCount[r] = 1
        /\ FirstKind(r) = "end" => result[r].state = "fulfilled"
        /\ FirstKind(r) = "error" =>
             /\ result[r].state = "rejected"
             /\ result[r].reason = firstEvent[r][1].error
        /\ FirstKind(r) = "timeout" =>
             /\ result[r].state = "rejected"
             /\ result[r].reason.name = "RequestTimeoutError"

\* a lifecycle completed by end received an error and a timeout afterwards
\* and still holds its response
C5_Witness ==
    \E r \in Ids :
        /\ FirstKind(r) = "end"
        /\ timeoutFired[r]
        /\ ctx[r].error # <<>>
        /\ result[r].state = "fulfilled"

\* C6: each lifecycle emits exactly one request-duration observation, after
\* its terminal transition, for every sequence of stream events.
C6_OneDurationRecord ==
    \A r \in Ids :
        durationRecords[r] = (IF IsSettled(result[r]) THEN 1 ELSE 0)

\* C7: a timeout watch that fires after the lifecycle reached Complete is a
\* no-op: no further stream close, telemetry record or gauge decrement, and
\* the result is unchanged.
C7_LateTimeoutIsNoOp ==
    [][\A r \in Ids :
         (result[r].state = "fulfilled" /\ ~timeoutFired[r] /\ timeoutFired'[r])
            => /\ stream'[r] = stream[r]
               /\ durationRecords'[r] = durationRecords[r]
               /\ activeRequests' = activeRequests
               /\ result'[r] = result[r]]_vars

\* C8: no lifecycle settles while its stream is still unreleased: on every
\* terminal path the stream was closed when the result is settled.
C8_StreamClosedWhenSettled ==
    \A r \in Ids :
        (IsSettled(result[r]) /\ stream[r].opened) => stream[r].closes >= 1

\* a lifecycle failed by a stream error and handed the rejection to its
\* caller, its stream closed
C8_Witness ==
    \E r \in Ids :
        /\ FirstKind(r) = "error"
        /\ callResult[r].state = "rejected"
        /\ stream[r].opened
        /\ stream[r].closes >= 1

\* C9: a timeout that is the first terminal event rejects with a
\* RequestTimeoutError carrying the session's origin, the method and path of
\* the call and the timeout value the watch was armed with.
C9_TimeoutErrorFields ==
    \A r \in Ids :
        FirstKind(r) = "timeout" =>
            /\ result[r].state = "rejected"
            /\ result[r].reason =
                 [name |-> "RequestTimeoutError", origin |-> origin,
                  method |-> call[r].method, path |-> call[r].path,
                  timeout |-> stream[r].armed[1]]

\* a request with its own timeout, on a session configured with another
\* one, timed out and its caller has the rejection
C9_Witness ==
    \E r \in Ids :
        /\ FirstKind(r) = "timeout"
        /\ call[r].options.timeout # <<>>
        /\ defaultOptions.timeout # DefaultTimeout
        /\ callResult[r].state = "rejected"

\* C10: a stream error that is the first terminal event rejects the
\* lifecycle with exactly the error the transport delivered, and the caller
\* of the verb observes that same error.
C10_ErrorPropagatedUnchanged ==
    \A r \in Ids :
        FirstKind(r) = "error" =>
            /\ result[r] = Rejected(firstEvent[r][1].error)
            /\ IsSettled(callResult[r])
                 => callResult[r] = Rejected(firstEvent[r][1].error)

\* the caller has observed the first error of a stream that delivered a
\* different error afterwards
C10_Witness ==
    \E r \in Ids :
        /\ FirstKind(r) = "error"
        /\ IsSettled(callResult[r])
        /\ ctx[r].error # <<firstEvent[r][1].error>>

\* everything but the count of close() calls
allButCloseCalls ==
    <<origin, defaultOptions, isConnected, requestCount, connClosed, ctorVars,
      sessionMeterVars, sessionEvents, poolVars, requestVars, meterVars,
      microtasks, historyVars, responseVars>>

\* C11: isAlive() is true after a successful construction; a verb call and a
\* request that succeeds leave a live session alive; after close() isAlive()
\* is false; a close() on a session that is not connected changes nothing;
\* a verb called after close() rejects with the not-connected error, opens no
\* stream and is not counted.
C11_ConnectivityLifecycle ==
    [][/\ (constructed = "no" /\ constructed' = "yes") => isAlive'
       /\ (\E r \in Ids : /\ callResult[r].state = "pending"
                           /\ callResult'[r].state = "fulfilled")
            => isAlive' = isAlive
       /\ (nextId' # nextId /\ isAlive) => isAlive'
       /\ closeCalls' # closeCalls => ~isAlive'
       /\ (closeCalls' # closeCalls /\ ~isAlive) => UNCHANGED allButCloseCalls
       /\ (nextId' # nextId /\ closeCalls >= 1)
            => /\ callResult'[nextId] = Rejected(NotConnectedError)
               /\ stream'[nextId] = NoStream
               /\ requestCount' = requestCount]_vars

\* a request succeeded, close() was called twice and a verb called afterwards
\* was rejected with the not-connected error
C11_Witness ==
    /\ closeCalls >= 2
    /\ sessionEvents = 0
    /\ ~isAlive
    /\ \E r1, r2 \in Ids :
        /\ callResult[r1].state = "fulfilled"
        /\ callResult[r2] = Rejected(NotConnectedError)

\* C12: whatever terminal events a session sees (close(), transport error,
\* timeout, close, in any order and number), the terminal cleanup runs exactly
\* once: a session that is no longer connected has exactly one
\* session-duration record, one requests-per-session record and one decrement
\* of the active-sessions gauge; a connected one has none.
C12_CleanupExactlyOnce ==
    constructed = "yes" =>
        /\ sessionDurationRecords = (IF isConnected THEN 0 ELSE 1)
        /\ Len(requestsPerSessionRecords) = (IF isConnected THEN 0 ELSE 1)
        /\ activeSessions = (IF isConnected THEN 1 ELSE 0)

\* C13: the constructor throws when the tag is h2 and the URL is not https
\* and when the tag is h2c and the URL is https; it succeeds for a matching
\* tag and for no tag; when it throws, no connection was opened, no observer
\* was registered and no session telemetry was emitted.
C13_ProtocolValidated ==
    constructed # "no" =>
        LET tag == ctorArgs.options.protocol
            https == ctorArgs.url.protocol = "https:"
        IN  /\ (tag = <<"h2">> /\ ~https) => constructed = "threw"
            /\ (tag = <<"h2c">> /\ https) => constructed = "threw"
            /\ (tag = <<>> \/ (tag = <<"h2">> /\ https) \/ (tag = <<"h2c">> /\ ~https))
                 => constructed = "yes" /\ connOpened
            /\ constructed = "threw" =>
                 /\ ~connOpened
                 /\ observers = {}
                 /\ ~isConnected
                 /\ activeSessions = 0
                 /\ sessionDurationRecords = 0
                 /\ requestsPerSessionRecords = <<>>

\* the constructor was given the tag h2c with an https URL and threw
C13_Witness ==
    /\ constructed = "threw"
    /\ ctorArgs.options.protocol = <<"h2c">>
    /\ ctorArgs.url.protocol = "https:"

\* lifecycles for which a RequestManager was built
Built == {r \in Submitted : mngr[r] # NoMngr}
\* the options the caller gave to the verb
HeadersGiven(r) == Member(call[r].options, "headers", <<>>)
BodyGiven(r) == Member(call[r].options, "body", Undefined)
\* the content-type of the effective headers before the body is handled
ContentTypeBefore(r) ==
    Lookup(lowercase(Spread(defaultOptions.headers, HeadersGiven(r))),
           "content-type")
ContentTypeAfter(r) == Lookup(mngr[r].headers, "content-type")
\* the bytes given to stream.end
SentBytes(r) == IF stream[r].sent = <<>> THEN <<>> ELSE stream[r].sent[1]

\* C14: whenever a request-level header key equals a session-default key
\* compared case-insensitively, the lowercased header map of the lifecycle
\* carries the request-level value under that key.
C14_RequestHeaderWins ==
    \A r \in Built :
        \A i \in 1..Len(HeadersGiven(r)), j \in 1..Len(defaultOptions.headers) :
            toLowerCase(HeadersGiven(r)[i][1])
                    = toLowerCase(defaultOptions.headers[j][1])
                => Lookup(mngr[r].headers, toLowerCase(HeadersGiven(r)[i][1]))
                     = <<HeadersGiven(r)[i][2]>>

\* C15: the effective timeout of a lifecycle is the request-level timeout
\* when the request options supply one and the session default otherwise,
\* and the stream's timeout watch is armed with that value.
C15_EffectiveTimeout ==
    \A r \in Built :
        LET effective == IF call[r].options.timeout # <<>>
                         THEN call[r].options.timeout[1]
                         ELSE defaultOptions.timeout
        IN  /\ mngr[r].timeout = effective
            /\ stream[r].opened => stream[r].armed = <<effective>>

C17_RawBodySentUnmodified ==
    \A r \in Built :
        (stream[r].opened /\ BodyGiven(r).type \in {"string", "Buffer"})
            => /\ SentBytes(r) = (IF isBuffer(BodyGiven(r)) THEN BodyGiven(r).data
                                  ELSE Utf8(BodyGiven(r).chars))
               /\ ContentTypeBefore(r) # <<>>
                    => ContentTypeAfter(r) = ContentTypeBefore(r)
               /\ ContentTypeBefore(r) = <<>>
                    => \/ ContentTypeAfter(r) = <<"application/octet-stream">>
                       \/ Falsy(BodyGiven(r)) /\ ContentTypeAfter(r) = <<>>

IsNumeric(chars) == chars # <<>> /\ \A i \in 1..Len(chars) : IsDigit(chars[i])

\* C18: a numeric-string pseudo-status yields that number, an array of
\* numeric strings yields the number of its first element, and an absent or
\* unparseable pseudo-status (a non-numeric string, an empty array) yields -1.
C18_StatusParsing ==
    \A r \in Ids :
        LET status == received[r].status
            got == ctx[r].statusCode
        IN  received[r].response = 1 =>
            CASE status.type = "string" ->
                    IF IsNumeric(status.chars)
                    THEN got = Num(LeadingDigits(status.chars, 0))
                    ELSE got = Num(-1)
              [] status.type = "array" ->
                    IF Len(status.items) > 0 /\ IsNumeric(status.items[1].chars)
                    THEN got = Num(LeadingDigits(status.items[1].chars, 0))
                    ELSE got = Num(-1)
              [] status.type = "undefined" -> got = Num(-1)
              [] OTHER -> TRUE

\* C19: a lifecycle that completes without a data fragment yields a Response
\* whose body has length 0 and whose text() and json() both return the
\* absent value, json() without a parse error.
C19_EmptyBodyReads ==
    \A r \in Ids :
        (callResult[r].state = "fulfilled" /\ received[r].data = 0)
            => /\ Len(callResult[r].value.buffer) = 0
               /\ textResult[r] = Pending \/ textResult[r] = Fulfilled(Undefined)
               /\ jsonResult[r] = Pending \/ jsonResult[r] = Fulfilled(Undefined)

\* a response with status 204 and no data fragment was read with text() and
\* with json()
C19_Witness ==
    \E r \in Ids :
        /\ received[r].data = 0
        /\ callResult[r].state = "fulfilled"
        /\ callResult[r].value.statusCode = Num(204)
        /\ textResult[r] = Fulfilled(Undefined)
        /\ jsonResult[r] = Fulfilled(Undefined)

\* C20: when no close() was called and every request issued on the session
\* has reached a terminal state, whatever the interleaving of the stream
\* events, the request counter equals the number of requests issued and the
\* session is alive.
C20_CounterEqualsRequests ==
    (/\ closeCalls = 0
     /\ Submitted # {}
     /\ \A r \in Submitted : IsSettled(result[r]))
        => requestCount = Cardinality(Submitted) /\ isAlive

\* MaxReq requests were issued before any of them completed, the last one
\* completed first, one was resolved and one rejected, and all are terminal
C20_Witness ==
    /\ closeCalls = 0
    /\ nextId > MaxReq
    /\ requestCount = MaxReq
    /\ \A r \in Submitted : IsSettled(callResult[r])
    /\ \E r \in Submitted : result[r].state = "fulfilled"
    /\ \E r \in Submitted : result[r].state = "rejected"
    /\ \E r \in Submitted : nEvents[r] >= 2

\* C21: a gate of limit 0 is rejected at construction, so in no reachable
\* state does a gate of limit 0 hold submitted lifecycles that wait in its
\* queue (where nothing can ever promote them).
C21_ZeroLimitRejected ==
    ~(concurrency = 0 /\ queue # <<>>)

\* the query the caller gave to the verb
QueryGiven(r) == Member(call[r].options, "query", <<>>)

\* C22: for every non-empty query in a verb call's options, the path handed
\* to the transport when the stream is opened is the requested path extended
\* with the encoded query parameters, as buildPath computes it.
C22_QueryApplied ==
    \A r \in Built :
        (stream[r].opened /\ QueryGiven(r) # <<>>)
            => Lookup(stream[r].headers, ":path")
                   = <<buildPath(call[r].path, QueryGiven(r))>>

\* the header object sets no user-agent, under any spelling of the name
SetsNoUserAgent(h) ==
    \A i \in 1..Len(h) : toLowerCase(h[i][1]) # "user-agent"

\* the headers member of the options the session was constructed with
SessionHeadersGiven ==
    IF ctorArgs.options.headers = <<>> THEN <<>>
    ELSE ctorArgs.options.headers[1]

\* C23: every request of a session whose session-level and request-level
\* headers set no user-agent carries the default user-agent of the library
\* in its effective headers, whether or not the session was given other
\* headers of its own.
C23_DefaultUserAgent ==
    \A r \in Built :
        (SetsNoUserAgent(SessionHeadersGiven) /\ SetsNoUserAgent(HeadersGiven(r)))
            => Lookup(mngr[r].headers, "user-agent") = <<VORR_USER_AGENT>>

RECURSIVE Concat(_)
\* the fragments of a sequence, one after the other
Concat(fragments) ==
    IF fragments = <<>> THEN <<>>
    ELSE fragments[1] \o Concat(Tail(fragments))

\* C24: the body of the Response of a completed lifecycle is the
\* concatenation of all data fragments the lifecycle received, in arrival
\* order, with nothing dropped, duplicated or reordered.
C24_BodyIsConcatenation ==
    \A r \in Submitted :
        callResult[r].state = "fulfilled"
            => callResult[r].value.buffer = Concat(received[r].fragments)

\* a lifecycle completed after two different fragments arrived
C24_Witness ==
    \E r \in Submitted :
        /\ callResult[r].state = "fulfilled"
        /\ Len(received[r].fragments) = 2
        /\ received[r].fragments[1] # received[r].fragments[2]
        /\ callResult[r].value.buffer
               = received[r].fragments[1] \o received[r].fragments[2]

\* C25: in a gate of limit at least 1 whose started lifecycles all settle,
\* every lifecycle submitted to the gate is eventually started and the promise
\* doRequest returned for it eventually settles.
C25_GateLiveness ==
    \A r \in Ids :
        (concurrency >= 1 /\ via[r] = "pool")
            ~> (InSeq(r, startOrder) /\ IsSettled(callResult[r]))

\* every lifecycle was submitted to a gate of limit at least 1, one of them
\* had to wait, and the promise of each has settled
C25_Witness ==
    /\ concurrency >= 1
    /\ nextId > MaxGateReq
    /\ \E r \in Submitted : WasQueued(r)
    /\ \A r \in Submitted : InSeq(r, startOrder) /\ IsSettled(callResult[r])

\* the position of x in q
IndexIn(q, x) == CHOOSE i \in 1..Len(q) : q[i] = x

\* C26: release and promotion are one step of the gate: a step that takes
\* waiters from the queue takes exactly one and leaves the active count as it
\* was, so the active count is the limit whenever a waiter is queued, and no
\* lifecycle submitted later is started ahead of a queued waiter.
C26_ReleasePromotesAtomically ==
    /\ [](queue # <<>> => active = concurrency)
    /\ [](\A r1, r2 \in Submitted :
            (WasQueued(r1) /\ r1 < r2 /\ InSeq(r2, startOrder))
                => /\ InSeq(r1, startOrder)
                   /\ IndexIn(startOrder, r1) < IndexIn(startOrder, r2))
    /\ [][Len(queue') < Len(queue)
            => (Len(queue') = Len(queue) - 1 /\ active' = active)]_vars

\* a promoted waiter has not resumed yet, the gate is full and a lifecycle
\* submitted after it waits in the queue
C26_Witness ==
    /\ concurrency >= 1
    /\ active = concurrency
    /\ \E i \in 1..Len(microtasks), j \in 1..Len(queue) :
           /\ microtasks[i].kind = "resume"
           /\ WasQueued(microtasks[i].r)
           /\ microtasks[i].r < queue[j]

C28_BodyHeadersReachTransport ==
    \A r \in Built :
        (stream[r].opened /\ ~Falsy(BodyGiven(r)))
            => /\ Lookup(stream[r].headers, "content-type") = ContentTypeAfter(r)
               /\ Lookup(stream[r].headers, "content-length")
                      = Lookup(mngr[r].headers, "content-length")

\* C29: every Response a lifecycle produces has an integer status, a parsed
\* status code or -1, also when the stream ends without response metadata
\* and when the pseudo-status is a non-numeric string.
C29_StatusIsInteger ==
    \A r \in Submitted :
        callResult[r].state = "fulfilled"
            => /\ callResult[r].value.statusCode.type = "number"
               /\ callResult[r].value.statusCode.value \in Int

\* lifecycles of the session that have reached a terminal state
Terminated == {r \in Submitted : via[r] = "session" /\ IsSettled(result[r])}

\* C30: the request counter of the session is incremented when a request
\* completes, by success or failure, so at every moment it is the number of
\* lifecycles of the session that have reached a terminal state, and the
\* requests-per-session value recorded at termination counts only the
\* requests completed by then.
C30_CounterCountsCompleted ==
    /\ [](requestCount = Cardinality(Terminated))
    /\ [][Len(requestsPerSessionRecords') > Len(requestsPerSessionRecords)
            => requestsPerSessionRecords'[Len(requestsPerSessionRecords')]
                   = Cardinality(Terminated)]_vars

\* C31: a verb call made while connectivity is false fails at once with the
\* not-connected error and has no other effect: no lifecycle is built, no
\* stream is opened, the request counter and the request telemetry are
\* unchanged, and the lifecycles in flight and their callers are untouched.
C31_DisconnectedCallHasNoEffect ==
    [][(nextId' = nextId + 1 /\ ~isConnected)
         => /\ callResult' = [callResult EXCEPT
                                ![nextId] = Rejected(NotConnectedError)]
            /\ UNCHANGED <<mngr, stream, ctx, result, requestCount, meterVars,
                           microtasks, isConnected, connClosed>>]_vars

\* a verb call was rejected as not connected while an earlier lifecycle of
\* the session was still in flight
C31_Witness ==
    \E r1, r2 \in Submitted :
        /\ r1 < r2
        /\ stream[r1].opened /\ ~IsSettled(result[r1])
        /\ callResult[r2] = Rejected(NotConnectedError)
        /\ mngr[r2] = NoMngr /\ ~stream[r2].opened
        /\ requestCount = 1 /\ totalRequests = 1

\* C32: no retries: a lifecycle opens one stream on the connection and arms
\* one timeout watch on it, whatever its outcome; a lifecycle that has
\* settled, by success, transport error or timeout, opens no further stream.
C32_NoRetries ==
    /\ [](\A r \in Ids :
            /\ stream[r].opens <= 1
            /\ Len(stream[r].armed) = stream[r].opens
            /\ stream[r].opened <=> stream[r].opens = 1)
    /\ [][\A r \in Ids :
            nEvents[r] > 0 => /\ stream'[r].opens = stream[r].opens
                              /\ stream'[r].armed = stream[r].armed]_vars

\* a lifecycle failed by a transport error, then received a second event,
\* and still has the one stream and the one watch it started with
C32_Witness ==
    \E r \in Submitted :
        /\ result[r].state = "rejected"
        /\ firstEvent[r] # <<>> /\ firstEvent[r][1].kind = "error"
        /\ nEvents[r] >= 2
        /\ stream[r].opens = 1 /\ Len(stream[r].armed) = 1

\* C33: when the timeout watch of one lifecycle fires, only the stream of
\* that lifecycle is closed and only its result is rejected; the stream, the
\* accumulated headers and body and the result of every sibling lifecycle,
\* the connectivity flag and the connection are unchanged, and the gate is
\* left as it was but for the one release job of that lifecycle.
C33_TimeoutIsolation ==
    /\ [][\A r \in Ids :
            (~timeoutFired[r] /\ timeoutFired'[r])
              => /\ \A s \in Ids \ {r} :
                      /\ stream'[s] = stream[s]
                      /\ ctx'[s] = ctx[s]
                      /\ result'[s] = result[s]
                      /\ callResult'[s] = callResult[s]
                 /\ UNCHANGED <<isConnected, connClosed, connOpened, active,
                                queue, releaseCount>>
                 /\ stream'[r].closes = stream[r].closes + 1
                 /\ ~IsSettled(result[r])
                      => /\ result'[r] = Rejected(fromRequestManager(mngr[r]))
                         /\ microtasks' = microtasks \o Reaction(r, via[r])]_vars
    /\ [](\A r \in Ids : releaseCount[r] <= 1)

\* a lifecycle of the gate timed out and released its slot while a sibling
\* was running on the same connection, untouched
C33_Witness ==
    \E r, s \in Submitted :
        /\ r # s
        /\ firstEvent[r] # <<>> /\ firstEvent[r][1].kind = "timeout"
        /\ result[r].state = "rejected" /\ releaseCount[r] = 1
        /\ stream[r].closes = 1
        /\ stream[s].opened /\ stream[s].closes = 0 /\ result[s] = Pending
        /\ isConnected /\ ~connClosed

\* C34: on a transport that eventually delivers end, error or the armed
\* timeout on every opened stream, every started lifecycle eventually settles
\* its result, and its caller is given the outcome, for every session-level
\* and request-level timeout value.
C34_LifecycleTerminates ==
    \A r \in Ids :
        (mngr[r] # NoMngr) ~> (IsSettled(result[r]) /\ IsSettled(callResult[r]))

\* a lifecycle whose effective timeout is 0, so that no watch was armed, has
\* settled and its caller has the outcome
C34_Witness ==
    \E r \in Submitted :
        /\ stream[r].opened /\ stream[r].armed = <<0>>
        /\ IsSettled(result[r]) /\ callResult[r] = result[r]

\* lifecycles that were started and have not terminated
Running ==
    {r \in Submitted :
        /\ \/ via[r] = "session" /\ mngr[r] # NoMngr
           \/ InSeq(r, startOrder)
        /\ ~IsSettled(result[r])}

\* C35: the active-requests gauge is the number of requests in flight: it is
\* incremented once when a lifecycle starts and decremented once when that
\* lifecycle terminates, so it is never negative and is 0 once all lifecycles
\* have terminated, for every sequence of stream events and also when opening
\* the stream fails.
C35_ActiveRequestsGauge ==
    /\ activeRequests >= 0
    /\ activeRequests = Cardinality(Running)

\* C36: the request member of a Response is the resolved configuration of
\* the lifecycle that produced it: the method of the verb, the requested
\* path, the effective headers of the lifecycle, with the content-type and
\* content-length that body handling set, and the timeout the watch was
\* armed with.
C36_ResponseExposesConfig ==
    \A r \in Submitted :
        callResult[r].state = "fulfilled"
            => LET config == callResult[r].value.request IN
               /\ config.method = call[r].method
               /\ config.path = call[r].path
               /\ config.headers = mngr[r].headers
               /\ ~Falsy(BodyGiven(r))
                    => /\ Lookup(config.headers, "content-type") # <<>>
                       /\ Lookup(config.headers, "content-length")
                              = <<ToString(Len(SentBytes(r)))>>
               /\ <<config.timeout>> = stream[r].armed

\* {a: 1} was posted with timeout 5000 and no content-type; the Response
\* reports POST, the path, content-type application/json and 5000
C36_Witness ==
    \E r \in Submitted :
        /\ callResult[r].state = "fulfilled"
        /\ BodyGiven(r) = Obj(<<(<<(<<97>>), 1>>)>>)
        /\ HeadersGiven(r) = <<>>
        /\ callResult[r].value.request.method = "POST"
        /\ callResult[r].value.request.path \in Paths
        /\ Lookup(callResult[r].value.request.headers, "content-type")
               = <<"application/json">>
        /\ callResult[r].value.request.timeout = 5000

\* the stream of r delivered something in this step
EventOn(r) == nEvents'[r] # nEvents[r] \/ received'[r] # received[r]

\* C37: lifecycles that share a session are independent under every
\* interleaving of their stream events: the status, headers and body of each
\* Response come from the events of its own stream only, and an event on one
\* stream changes neither the context nor the result of another lifecycle.
C37_LifecyclesIndependent ==
    /\ [](\A r \in Submitted :
            callResult[r].state = "fulfilled"
              => LET own == IF received[r].response = 1
                            THEN handleResponseHeaders(
                                     ResponseHeaders(received[r].status), NoCtx)
                            ELSE NoCtx
                 IN  /\ callResult[r].value.statusCode = own.statusCode
                     /\ callResult[r].value.responseHeaders = own.headers
                     /\ callResult[r].value.buffer
                            = Concat(received[r].fragments))
    /\ [][\A r \in Ids :
            EventOn(r) => \A s \in Ids \ {r} :
                             /\ ctx'[s] = ctx[s]
                             /\ result'[s] = result[s]
                             /\ callResult'[s] = callResult[s]
                             /\ stream'[s] = stream[s]]_vars

\* two lifecycles of one session received different metadata and data, their
\* events interleaved; one completed with its own status and body while the
\* other failed
C37_Witness ==
    \E r, s \in Submitted :
        /\ callResult[r].state = "fulfilled" /\ callResult[s].state = "rejected"
        /\ received[r].fragments = <<(<<49>>), (<<49>>)>>
        /\ received[s].fragments = <<(<<120>>)>>
        /\ received[r].status # received[s].status
        /\ received[r].response = 1 /\ received[s].response = 1
        /\ callResult[r].value.buffer = <<49, 49>>
        /\ callResult[r].value.statusCode = Num(204)

\* C38: whenever a successfully constructed session is no longer alive, its
\* connection has been closed, by the session itself or by the transport;
\* in particular after a timeout or error event followed by close().
C38_DeadSessionIsClosed ==
    (constructed = "yes" /\ ~isAlive) => connClosed

\* C39: when the transport gives the pseudo-status of the response metadata
\* as a number, the status of the lifecycle and of its Response is that
\* number.
C39_NumericStatusKept ==
    \A r \in Submitted :
        (received[r].response = 1 /\ received[r].status.type = "number")
            => /\ ctx[r].statusCode = received[r].status
               /\ callResult[r].state = "fulfilled"
                    => callResult[r].value.statusCode = received[r].status

====
